---- MODULE Spec2Model ----
(***************************************************************************)
(* A model of the soundtoys mixing engine: the Player's shared Note        *)
(* collection, the render thread that ticks the callback and advances the  *)
(* time counter, and the control threads that call add_notes,              *)
(* remove_notes and get_simultaneous_notes (Spec, FairSpec); one call of   *)
(* EnvelopeADSR::amplitude (EnvSpec); the mixing of the tick callback      *)
(* (MixSpec); and a PercussionSequencer with its clock (SeqSpec).          *)
(*                                                                         *)
(* f64 values are modelled as exact rationals extended with NaN and the    *)
(* two infinities, so that the divisions by a zero attack_time or          *)
(* release_time behave as IEEE-754 division does.  The f64 values of the   *)
(* sequencer are modelled with their rounding to 53 significant bits,      *)
(* which decides how many sub-beats an update crosses.                     *)
(***************************************************************************)
EXTENDS Integers, Sequences, FiniteSets, TLC

(***************************************************************************)
(* Bounds of the model.                                                    *)
(***************************************************************************)
\* frames the render thread renders before the stream is torn down
MaxFrames == 5
\* calls the control threads make in one behaviour
MaxCalls == 2
\* Notes the tick callback mixes in one frame, where the samples are followed
MaxSounds == 2
\* ticks of the monotonic clock the sequencer's caller lives through
MaxClock == 12
\* sub-beat advances a sequencer is followed through
MaxAdvances == 6

(***************************************************************************)
(* f64 arithmetic.                                                         *)
(***************************************************************************)
RECURSIVE Gcd(_, _)
Gcd(a, b) == IF b = 0 THEN a ELSE Gcd(b, a % b)

Abs(x) == IF x < 0 THEN -x ELSE x

\* the finite value n/d, d > 0, in lowest terms
Fin(n, d) ==
    LET g == Gcd(Abs(n), d)
    IN  [k |-> "fin", n |-> n \div g, d |-> d \div g]

NaN == [k |-> "nan", n |-> 0, d |-> 1]
PInf == [k |-> "inf", n |-> 1, d |-> 1]
NInf == [k |-> "inf", n |-> -1, d |-> 1]

Zero == Fin(0, 1)
One == Fin(1, 1)

Sgn(x) == IF x > 0 THEN 1 ELSE IF x < 0 THEN -1 ELSE 0

FNeg(a) == IF a.k = "nan" THEN NaN ELSE [a EXCEPT !.n = -a.n]

FAdd(a, b) ==
    IF a.k = "nan" \/ b.k = "nan" THEN NaN
    ELSE IF a.k = "inf" /\ b.k = "inf" THEN (IF a.n = b.n THEN a ELSE NaN)
    ELSE IF a.k = "inf" THEN a
    ELSE IF b.k = "inf" THEN b
    ELSE Fin(a.n * b.d + b.n * a.d, a.d * b.d)

FSub(a, b) == FAdd(a, FNeg(b))

FMul(a, b) ==
    IF a.k = "nan" \/ b.k = "nan" THEN NaN
    ELSE IF a.k = "inf" \/ b.k = "inf"
         THEN (IF a.n = 0 \/ b.n = 0 THEN NaN
               ELSE IF Sgn(a.n) * Sgn(b.n) > 0 THEN PInf ELSE NInf)
    ELSE Fin(a.n * b.n, a.d * b.d)

\* a / b
FDiv(a, b) ==
    IF a.k = "nan" \/ b.k = "nan" THEN NaN
    ELSE IF b.k = "inf" THEN (IF a.k = "inf" THEN NaN ELSE Zero)
    ELSE IF b.n = 0
         THEN (IF a.n = 0 THEN NaN ELSE IF a.n > 0 THEN PInf ELSE NInf)
    ELSE IF a.k = "inf"
         THEN (IF Sgn(a.n) * Sgn(b.n) > 0 THEN PInf ELSE NInf)
    ELSE Fin(a.n * b.d * Sgn(b.n), a.d * Abs(b.n))

\* a <= b; false when either side is NaN
FLe(a, b) ==
    IF a.k = "nan" \/ b.k = "nan" THEN FALSE
    ELSE IF a.k = "inf" THEN (a.n < 0 \/ (b.k = "inf" /\ b.n > 0))
    ELSE IF b.k = "inf" THEN b.n > 0
    ELSE a.n * b.d <= b.n * a.d

FGe(a, b) == FLe(b, a)

\* a > b; false when either side is NaN
FGt(a, b) == a.k # "nan" /\ b.k # "nan" /\ ~FLe(a, b)

\* f64::min: the smaller of the two, the other one when one is NaN
FMin(a, b) ==
    IF a.k = "nan" THEN b
    ELSE IF b.k = "nan" THEN a
    ELSE IF FLe(a, b) THEN a ELSE b

\* a == b; false when either side is NaN
FEq(a, b) == a.k # "nan" /\ b.k # "nan" /\ a = b


\* a <= f64::EPSILON (2^-52).  Every positive finite value of the model has
\* a denominator below 2^31 and so exceeds EPSILON.
LeEpsilon(a) == a.k # "nan" /\ (IF a.k = "inf" THEN a.n < 0 ELSE a.n <= 0)

(***************************************************************************)
(* f64 arithmetic with rounding, for the sequencer.  A finite value is a   *)
(* sign s, a magnitude m and an exponent e and stands for s * m * 2^e; m   *)
(* is a whole number written in limbs of 15 bits, least significant first, *)
(* and is 0 or has exactly 53 bits.  An operation computes the exact       *)
(* result and rounds it to 53 significant bits, ties to even, as IEEE-754  *)
(* does.  Results of 2^1024 and more are infinite; subnormal values and    *)
(* the sign of zero are not modelled.                                      *)
(***************************************************************************)
Base == 32768
NLimbs == 8
LZero == [i \in 1..NLimbs |-> 0]

\* the whole number 0 <= n < 2^31
LInt(n) ==
    [i \in 1..NLimbs |-> IF i <= 3 THEN (n \div Base^(i - 1)) % Base ELSE 0]

\* the limbs of a + b from i on, c being the carry into limb i
RECURSIVE LCarry(_, _, _, _)
LCarry(a, b, i, c) ==
    IF i > NLimbs THEN <<>>
    ELSE <<(a[i] + b[i] + c) % Base>>
             \o LCarry(a, b, i + 1, (a[i] + b[i] + c) \div Base)

LAdd(a, b) == LCarry(a, b, 1, 0)

\* the limbs of a - b from i on, c being the borrow from limb i
RECURSIVE LBorrow(_, _, _, _)
LBorrow(a, b, i, c) ==
    IF i > NLimbs THEN <<>>
    ELSE <<(a[i] - b[i] - c + Base) % Base>>
             \o LBorrow(a, b, i + 1, IF a[i] - b[i] - c < 0 THEN 1 ELSE 0)

\* a - b, for a >= b
LSub(a, b) == LBorrow(a, b, 1, 0)

\* a < b, deciding on the limbs from i down
RECURSIVE LLtFrom(_, _, _)
LLtFrom(a, b, i) ==
    IF i = 0 THEN FALSE
    ELSE IF a[i] # b[i] THEN a[i] < b[i]
    ELSE LLtFrom(a, b, i - 1)

LLt(a, b) == LLtFrom(a, b, NLimbs)
LLe(a, b) == ~LLt(b, a)

\* the limbs of a * n from i on, c being the carry into limb i
RECURSIVE LMulCarry(_, _, _, _)
LMulCarry(a, n, i, c) ==
    IF i > NLimbs THEN <<>>
    ELSE <<(a[i] * n + c) % Base>>
             \o LMulCarry(a, n, i + 1, (a[i] * n + c) \div Base)

\* a * n, for a whole number 0 <= n < Base
LMul(a, n) == LMulCarry(a, n, 1, 0)

\* the limbs of floor(a / n) from i down, r being what is left of the limbs
\* above i, followed by the remainder of a
RECURSIVE LDivRem(_, _, _, _)
LDivRem(a, n, i, r) ==
    IF i = 0 THEN <<r>>
    ELSE LDivRem(a, n, i - 1, (r * Base + a[i]) % n)
             \o <<(r * Base + a[i]) \div n>>

\* the remainder of a / n, for a whole number 0 < n < Base
LRem(dr) == dr[1]

\* floor(a / n), for a whole number 0 < n < Base
LDiv(dr) == Tail(dr)

\* limb i of a, 0 outside of a
LLimb(a, i) == IF i \in 1..NLimbs THEN a[i] ELSE 0

\* a * 2^k, k >= 0
LShl(a, k) ==
    LET q == k \div 15
        r == k % 15
    IN  [i \in 1..NLimbs |->
            (LLimb(a, i - q) % 2^(15 - r)) * 2^r
                + (LLimb(a, i - q - 1) \div 2^(15 - r))]

\* floor(a / 2^k), k >= 0
LShr(a, k) ==
    LET q == k \div 15
        r == k % 15
    IN  [i \in 1..NLimbs |->
            (LLimb(a, i + q) \div 2^r)
                + (LLimb(a, i + q + 1) % 2^r) * 2^(15 - r)]

RECURSIVE Log2(_)
Log2(x) == IF x <= 1 THEN 0 ELSE 1 + Log2(x \div 2)

\* the position of the leading bit of a # LZero
TopBit(a) ==
    LET top == CHOOSE i \in 1..NLimbs :
                   a[i] # 0 /\ \A h \in (i + 1)..NLimbs : a[h] = 0
    IN  15 * (top - 1) + Log2(a[top])

\* 2^j
LPow2(j) == [i \in 1..NLimbs |-> IF i - 1 = j \div 15 THEN 2^(j % 15) ELSE 0]

\* a mod 2^j
LLow(a, j) ==
    [i \in 1..NLimbs |->
        IF i - 1 < j \div 15 THEN a[i]
        ELSE IF i - 1 = j \div 15 THEN a[i] % 2^(j % 15)
        ELSE 0]

\* bit j of a
LBit(a, j) == (a[j \div 15 + 1] \div 2^(j % 15)) % 2

DNaN == [k |-> "nan", s |-> 1, m |-> LZero, e |-> 0]
DInf(s) == [k |-> "inf", s |-> s, m |-> LZero, e |-> 0]

\* the f64 of sign s, magnitude m (0 or of 53 bits) and exponent e
Dbl(s, m, e) ==
    IF m = LZero THEN [k |-> "fin", s |-> 1, m |-> LZero, e |-> 0]
    ELSE IF e + 52 >= 1024 THEN DInf(s)
    ELSE [k |-> "fin", s |-> s, m |-> m, e |-> e]

DZero == Dbl(1, LZero, 0)

\* the magnitude m of 53 or, after a carry, 54 bits, at exponent e
Carried(s, m, e) ==
    IF TopBit(m) = 53 THEN Dbl(s, LShr(m, 1), e + 1) ELSE Dbl(s, m, e)

\* x, plus a fraction of a unit when sticky, with its j lowest bits rounded
\* away, ties to even
RoundedAt(s, x, sticky, e, j, low) ==
    IF \/ LLt(LPow2(j - 1), low)
       \/ low = LPow2(j - 1) /\ (sticky \/ LBit(x, j) = 1)
    THEN Carried(s, LAdd(LShr(x, j), LInt(1)), e + j)
    ELSE Dbl(s, LShr(x, j), e + j)

\* x, plus a fraction of a unit when sticky, brought to 53 bits; j is the
\* number of bits x has beyond 53, and sticky implies j > 0
Rounded(s, x, sticky, e, j) ==
    IF j <= 0 THEN Dbl(s, LShl(x, -j), e + j)
    ELSE RoundedAt(s, x, sticky, e, j, LLow(x, j))

\* the f64 nearest to s * (a / n) * 2^e for an a of at least 55 bits more
\* than n has; dr is the quotient and the remainder of a by n
Quotient(s, dr, e) ==
    Rounded(s, LDiv(dr), LRem(dr) # 0, e, TopBit(LDiv(dr)) - 52)

\* the bits a is short of having 55 bits more than n has
Gap(gap) == IF gap < 0 THEN 0 ELSE gap

\* a / n at the scale where the quotient has more than 53 bits
Scaled(s, a, n, e, up) ==
    Quotient(s, LDivRem(LShl(a, up), n, NLimbs, 0), e - up)

\* the f64 nearest to s * (a / n) * 2^e, ties to even, for whole numbers a
\* and 0 < n < Base: a is scaled until the quotient has more than 53 bits,
\* the bits below the 53rd and the remainder of the division decide the
\* direction
Round53(s, a, n, e) ==
    IF a = LZero THEN DZero
    ELSE IF n = 1 THEN Rounded(s, a, FALSE, e, TopBit(a) - 52)
    ELSE Scaled(s, a, n, e, Gap(55 + Log2(n) - TopBit(a)))

\* n as f64, for a whole number |n| < 2^31
DInt(n) == Round53(IF n < 0 THEN -1 ELSE 1, LInt(Abs(n)), 1, 0)

\* hi + lo for finite values # 0 with hi.e >= lo.e; h is the magnitude of hi
\* at the exponent of lo.  An operand 2^60 times smaller than the other is
\* below a quarter of its unit in the last place and leaves it unchanged.
Sum(hi, lo, h) ==
    IF hi.e - lo.e >= 60 THEN hi
    ELSE IF hi.s = lo.s THEN Round53(hi.s, LAdd(h, lo.m), 1, lo.e)
    ELSE IF LLe(lo.m, h) THEN Round53(hi.s, LSub(h, lo.m), 1, lo.e)
    ELSE Round53(lo.s, LSub(lo.m, h), 1, lo.e)

\* a + b
DAdd(a, b) ==
    IF a.k = "nan" \/ b.k = "nan" THEN DNaN
    ELSE IF a.k = "inf" /\ b.k = "inf" THEN (IF a.s = b.s THEN a ELSE DNaN)
    ELSE IF a.k = "inf" THEN a
    ELSE IF b.k = "inf" THEN b
    ELSE IF a.m = LZero THEN b
    ELSE IF b.m = LZero THEN a
    ELSE IF a.e >= b.e THEN Sum(a, b, LShl(a.m, a.e - b.e))
    ELSE Sum(b, a, LShl(b.m, b.e - a.e))

DNeg(a) ==
    IF a.k = "nan" THEN DNaN
    ELSE IF a.k = "inf" THEN DInf(-a.s)
    ELSE Dbl(-a.s, a.m, a.e)

\* a - b
DSub(a, b) == DAdd(a, DNeg(b))

\* a / n as f64, for a whole number |n| < Base
DDiv(a, n) ==
    IF a.k = "nan" THEN DNaN
    ELSE IF n = 0
         THEN (IF a.k = "fin" /\ a.m = LZero THEN DNaN ELSE DInf(a.s))
    ELSE IF a.k = "inf" THEN DInf(a.s * Sgn(n))
    ELSE Round53(a.s * Sgn(n), a.m, Abs(n), a.e)

\* a <= b; false when either side is NaN
DLe(a, b) ==
    IF a.k = "nan" \/ b.k = "nan" THEN FALSE
    ELSE IF a.k = "inf" THEN (a.s < 0 \/ (b.k = "inf" /\ b.s > 0))
    ELSE IF b.k = "inf" THEN b.s > 0
    ELSE IF a.m = LZero THEN (b.m = LZero \/ b.s > 0)
    ELSE IF b.m = LZero THEN a.s < 0
    ELSE IF a.s # b.s THEN a.s < b.s
    ELSE IF a.s > 0
         THEN a.e < b.e \/ (a.e = b.e /\ LLe(a.m, b.m))
    ELSE b.e < a.e \/ (a.e = b.e /\ LLe(b.m, a.m))

DGe(a, b) == DLe(b, a)

\* a > b; false when either side is NaN
DGt(a, b) == a.k # "nan" /\ b.k # "nan" /\ ~DLe(a, b)

(***************************************************************************)
(* oscillators.rs: the ADSR envelope.                                      *)
(***************************************************************************)
EnvelopeDefault ==
    [attack_time |-> Fin(1, 10), decay_time |-> Fin(1, 10),
     release_time |-> Fin(2, 10), sustain_amplitude |-> One,
     start_amplitude |-> One]

\* (life_time / attack_time) * start_amplitude
AttackCurve(env, life_time) ==
    FMul(FDiv(life_time, env.attack_time), env.start_amplitude)

\* ((life_time - attack_time) / decay_time)
\*     * (sustain_amplitude - start_amplitude) + start_amplitude
DecayCurve(env, life_time) ==
    FAdd(FMul(FDiv(FSub(life_time, env.attack_time), env.decay_time),
              FSub(env.sustain_amplitude, env.start_amplitude)),
         env.start_amplitude)

\* the attack/decay/sustain curve at life_time
AttackDecay(env, life_time) ==
    IF FLe(life_time, env.attack_time)
    THEN AttackCurve(env, life_time)
    ELSE IF FGt(life_time, env.attack_time)
            /\ FLe(life_time, FAdd(env.attack_time, env.decay_time))
    THEN DecayCurve(env, life_time)
    ELSE env.sustain_amplitude

RawAmplitude(env, time, time_on, time_off) ==
    IF FGt(time_on, time_off)
    THEN AttackDecay(env, FSub(time, time_on))
    ELSE LET release_amplitude == AttackDecay(env, FSub(time_off, time_on))
         IN  FAdd(FMul(FDiv(FSub(time, time_off), env.release_time),
                       FNeg(release_amplitude)),
                  release_amplitude)

amplitude(env, time, time_on, time_off) ==
    LET raw == RawAmplitude(env, time, time_on, time_off)
    IN  IF LeEpsilon(raw) THEN Zero ELSE raw

(***************************************************************************)
(* instruments.rs: the instruments the control threads play.               *)
(***************************************************************************)
Bell ==
    [env |-> [EnvelopeDefault EXCEPT !.attack_time = Fin(1, 100),
                                     !.decay_time = One,
                                     !.sustain_amplitude = Zero,
                                     !.release_time = One],
     volume |-> One,
     max_life_time |-> Zero]

Harmonica ==
    [env |-> [EnvelopeDefault EXCEPT !.attack_time = Zero,
                                     !.decay_time = One,
                                     !.sustain_amplitude = Fin(95, 100),
                                     !.release_time = Fin(1, 10)],
     volume |-> Fin(3, 10),
     max_life_time |-> Zero]

Drumkick ==
    [env |-> [EnvelopeDefault EXCEPT !.attack_time = Fin(1, 100),
                                     !.decay_time = Fin(15, 100),
                                     !.sustain_amplitude = Zero,
                                     !.release_time = Zero],
     volume |-> One,
     max_life_time |-> Fin(15, 10)]

\* the instrument kinds (TypeId) of the model
Kinds == {"Bell", "Harmonica", "Drumkick"}

Percussive == {"Drumkick"}

Instrument(kind) ==
    CASE kind = "Bell" -> Bell
      [] kind = "Harmonica" -> Harmonica
      [] kind = "Drumkick" -> Drumkick

\* Bell::sound, Harmonica::sound: note_finished is set when the envelope
\* amplitude is <= 0.0
EnvelopeFinished(ins, time, time_on, time_off) ==
    FLe(amplitude(ins.env, time, time_on, time_off), Zero)

\* Drumkick::sound: note_finished is set when the lifetime has elapsed
LifetimeFinished(ins, time, time_on) ==
    FGt(ins.max_life_time, Zero) /\ FGe(FSub(time, time_on), ins.max_life_time)

\* the value sound() leaves in note_finished
NoteFinished(kind, time, time_on, time_off) ==
    IF kind \in Percussive
    THEN LifetimeFinished(Instrument(kind), time, time_on)
    ELSE EnvelopeFinished(Instrument(kind), time, time_on, time_off)

(***************************************************************************)
(* primitives.rs, player.rs: the state of a running Player.                *)
(***************************************************************************)
\* config.sample_rate of the output device, in frames per second
SampleRate == 2

\* let time_step = 1.0 / sample_rate
time_step == FDiv(One, Fin(SampleRate, 1))

\* the control threads
Ctl == {"c1", "c2"}

\* Voice::new: a Voice carries a pitch (note_id: u8) and its instrument kind
Voice(kind, note_id) == [instrument_id |-> kind, note_id |-> note_id]

\* the Voices the control threads pass in
Voices ==
    {Voice("Bell", 0), Voice("Bell", 64), Voice("Bell", 192),
     Voice("Harmonica", 0), Voice("Drumkick", 64)}

\* the Vec<&Voice> arguments of add_notes and remove_notes
Batches ==
    {<<v>> : v \in Voices}
        \cup {<<Voice("Bell", 0), Voice("Bell", 0)>>,
              <<Voice("Bell", 0), Voice("Harmonica", 0)>>}

\* the two ways the crate is built: with overflow checks (debug) and without
Builds == {"debug", "release"}

VARIABLES
    tick,       \* SoundMaker.tick, the time counter (seconds)
    notes,      \* Player.notes, the Vec<Note> behind the Mutex
    lock,       \* the holder of the Mutex: "none", "render" or a control thread
    poisoned,   \* the Mutex has been poisoned by a panic of its holder
    build,      \* how the crate was built
    rpc,        \* where the render thread is in its frame
    rtime,      \* the time the render thread loaded for the current frame
    pc,         \* where each control thread is in its call
    op,         \* the call each control thread is in
    voices,     \* the Voices of that call still to be processed
    ret,        \* the last value get_simultaneous_notes returned to each thread
    calls,      \* calls made so far
    \* an EnvelopeADSR and one call of its amplitude method
    envelope,   \* the EnvelopeADSR (self)
    args,       \* the arguments time, time_on, time_off
    amp,        \* the value the call returned, NoValue before it has returned
    \* one run of the tick callback's mixing, seen from the samples
    amplitude_limit,    \* the Option<f64> Player::new was given
    sounds,     \* what sound() returns for the Notes still to be mixed
    mixed_output,       \* the sum so far
    res,        \* the sample the callback returned, NoValue before it has
    \* a PercussionSequencer and its caller
    sequencer,  \* the PercussionSequencer (self)
    now,        \* the monotonic clock Instant::now() reads
    upc,        \* where the caller is in update
    elapsed_time,       \* update's local elapsed_time
    result,     \* update's local result, the Vec<Voice> it returns
    reached,    \* the beat indices reached since start, in order
    measured,   \* the ticks of the clock update has measured since start
    entry       \* the accumulator and the advances made when the loop was entered

playervars == <<tick, notes, lock, poisoned, build, rpc, rtime, pc, op, voices, ret, calls>>
envvars == <<envelope, args, amp>>
mixvars == <<amplitude_limit, sounds, mixed_output, res>>
seqvars == <<sequencer, now, upc, elapsed_time, result, reached, measured, entry>>

vars == <<playervars, envvars, mixvars, seqvars>>

\* frames rendered so far
Frames == (tick.n * SampleRate) \div tick.d

\* u8 addition: overflows when the sum leaves 0..255
Overflows(a, b) == a + b > 255
WrappingAdd(a, b) == (a + b) % 256

\* Iterator::find over the collection: the index of the first Note that passes
\* the test (hits: the indices of the Notes that pass it), or 0 for None
FirstIndex(hits) ==
    IF hits = {} THEN 0 ELSE CHOOSE i \in hits : \A j \in hits : i <= j

\* a get_time that answers with the time of the frame to come
get_time_ahead == FAdd(tick, time_step)

\* SoundMaker::get_time
get_time == tick

\* SoundMaker::create_note.  The fields voice_pitch and released are history
\* (the pitch of the Voice the Note was created from; whether remove_notes has
\* stamped it since it was created or retriggered) and are read by no action.
create_note(note_id, instrument_id) ==
    [id |-> WrappingAdd(note_id, 64),
     on |-> get_time,
     off |-> Zero,
     active |-> TRUE,
     instrument_id |-> instrument_id,
     voice_pitch |-> note_id,
     released |-> FALSE]

\* the Player after Player::new: SoundMaker::new and an empty collection
PlayerInit ==
    /\ tick = Zero
    /\ notes = <<>>
    /\ lock = "none"
    /\ poisoned = FALSE
    /\ build \in Builds
    /\ rpc = "load"
    /\ rtime = Zero
    /\ pc = [c \in Ctl |-> "idle"]
    /\ op = [c \in Ctl |-> "none"]
    /\ voices = [c \in Ctl |-> <<>>]
    /\ ret = [c \in Ctl |-> -1]
    /\ calls = 0

\* no value yet: a call that has not returned
NoValue == [k |-> "none", n |-> 0, d |-> 1]

\* no envelope call, no mixing, no sequencer: the parts of the state a
\* behaviour does not exercise
EnvIdle ==
    /\ envelope = EnvelopeDefault
    /\ args = [time |-> Zero, time_on |-> Zero, time_off |-> Zero]
    /\ amp = NoValue

MixIdle ==
    /\ amplitude_limit = NoValue
    /\ sounds = <<>>
    /\ mixed_output = Zero
    /\ res = NoValue

SeqIdle ==
    /\ sequencer = [beat_time |-> DZero, current_beat |-> 0, total_beats |-> 0,
                    accumulate |-> DZero, previous |-> 0, channels |-> <<>>]
    /\ now = 0
    /\ upc = "idle"
    /\ elapsed_time = DZero
    /\ result = <<>>
    /\ reached = <<>>
    /\ measured = 0
    /\ entry = [accumulate |-> DZero, advances |-> 0]

PlayerIdle == PlayerInit /\ build = "release"

Init == PlayerInit /\ EnvIdle /\ MixIdle /\ SeqIdle

(***************************************************************************)
(* The render thread: the output callback of stream_make, one frame at a   *)
(* time, and the tick callback Player::new installs.                       *)
(***************************************************************************)
\* let s = f(tick.load(Relaxed)): the frame's time is loaded, f is entered
RenderLoad ==
    /\ rpc = "load"
    /\ Frames < MaxFrames
    /\ rtime' = tick
    /\ rpc' = "lock"
    /\ UNCHANGED <<tick, notes, lock, poisoned, build, pc, op, voices, ret, calls>>
    /\ UNCHANGED <<envvars, mixvars, seqvars>>

\* notes_vec_clone.lock().unwrap()
RenderLock ==
    /\ rpc = "lock"
    /\ lock = "none"
    /\ IF poisoned
       THEN rpc' = "panicked" /\ lock' = lock
       ELSE rpc' = "eval" /\ lock' = "render"
    /\ UNCHANGED <<tick, notes, poisoned, build, rtime, pc, op, voices, ret, calls>>
    /\ UNCHANGED <<envvars, mixvars, seqvars>>

\* the values the time counter takes within the frames of the model
Times == {Fin(i, SampleRate) : i \in 0..MaxFrames}

\* NoteFinished, tabulated over the kinds and the times of the model
FinishedAt ==
    [kind \in Kinds, time \in Times, time_on \in Times, time_off \in Times |->
        NoteFinished(kind, time, time_on, time_off)]

\* the body of the loop for one Note: sound() is called and the Note is
\* flagged when it reports note_finished
Sounded(n, time) ==
    IF FinishedAt[n.instrument_id, time, n.on, n.off]
    THEN [n EXCEPT !.active = FALSE]
    ELSE n

\* for n in &mut *notes_lock { ... if note_finished { n.active = false } }
RECURSIVE Evaluated(_, _)
Evaluated(ns, time) ==
    IF ns = <<>>
    THEN <<>>
    ELSE <<Sounded(Head(ns), time)>> \o Evaluated(Tail(ns), time)

RenderEval ==
    /\ rpc = "eval"
    /\ notes' = Evaluated(notes, rtime)
    /\ rpc' = "retain"
    /\ UNCHANGED <<tick, lock, poisoned, build, rtime, pc, op, voices, ret, calls>>
    /\ UNCHANGED <<envvars, mixvars, seqvars>>

\* a retain that drops nothing
RetainedAll(ns) == ns

\* notes_lock.retain(|n| n.active)
Retained(ns) == SelectSeq(ns, LAMBDA n : n.active)

\* a tick callback that returns without dropping its guard
RenderRetainKeepsGuard ==
    /\ rpc = "retain"
    /\ notes' = SelectSeq(notes, LAMBDA n : n.active)
    /\ rpc' = "advance"
    /\ UNCHANGED <<tick, lock, poisoned, build, rtime, pc, op, voices, ret, calls>>
    /\ UNCHANGED <<envvars, mixvars, seqvars>>

\* retain, then the sample is returned and the guard dropped
RenderRetain ==
    /\ rpc = "retain"
    /\ notes' = Retained(notes)
    /\ lock' = "none"
    /\ rpc' = "advance"
    /\ UNCHANGED <<tick, poisoned, build, rtime, pc, op, voices, ret, calls>>
    /\ UNCHANGED <<envvars, mixvars, seqvars>>

\* a fetch_add of two time steps
AdvancedTwice(t) == FAdd(FAdd(t, time_step), time_step)

\* tick.fetch_add(time_step, Relaxed)
Advanced(t) == FAdd(t, time_step)

RenderAdvance ==
    /\ rpc = "advance"
    /\ tick' = Advanced(tick)
    /\ rpc' = "load"
    /\ UNCHANGED <<notes, lock, poisoned, build, rtime, pc, op, voices, ret, calls>>
    /\ UNCHANGED <<envvars, mixvars, seqvars>>

(***************************************************************************)
(* The control threads: add_notes, remove_notes, get_simultaneous_notes.   *)
(***************************************************************************)
\* a control thread enters a call.  The Vec<&Voice> it passes is local to the
\* thread until the lock is held, so the model draws it when the lock is taken.
Call(c) ==
    /\ pc[c] = "idle"
    /\ calls < MaxCalls
    /\ \E o \in {"add", "remove", "count"} : op' = [op EXCEPT ![c] = o]
    /\ pc' = [pc EXCEPT ![c] = "lock"]
    /\ calls' = calls + 1
    /\ UNCHANGED <<tick, notes, lock, poisoned, build, rpc, rtime, voices, ret>>
    /\ UNCHANGED <<envvars, mixvars, seqvars>>

\* a lock() that does not wait for the holder to drop its guard
MayLockWhileHeld(c) == pc[c] = "lock"

\* self.notes.lock().unwrap()
MayLock(c) == pc[c] = "lock" /\ lock = "none"

Lock(c) ==
    /\ MayLock(c)
    /\ IF poisoned
       THEN /\ pc' = [pc EXCEPT ![c] = "panicked"]
            /\ lock' = lock
            /\ voices' = voices
       ELSE /\ pc' = [pc EXCEPT ![c] = "run"]
            /\ lock' = c
            /\ \E b \in (IF op[c] = "count" THEN {<<>>} ELSE Batches) :
                  voices' = [voices EXCEPT ![c] = b]
    /\ UNCHANGED <<tick, notes, poisoned, build, rpc, rtime, op, ret, calls>>
    /\ UNCHANGED <<envvars, mixvars, seqvars>>

\* a panic while the guard is held: the guard is dropped and poisons the Mutex
Panic(c) ==
    /\ pc' = [pc EXCEPT ![c] = "panicked"]
    /\ lock' = "none"
    /\ poisoned' = TRUE
    /\ UNCHANGED <<notes, voices>>

\* add_notes: the Note a Voice is found to match
AddMatches(n, voice) ==
    n.id = voice.note_id /\ n.instrument_id = voice.instrument_id

\* add_notes: the collection after the body of the loop has run for voice
Added(ns, voice) ==
    LET i == FirstIndex({j \in 1..Len(ns) : AddMatches(ns[j], voice)})
    IN  IF i # 0
        THEN IF FGe(ns[i].off, ns[i].on)
             THEN [ns EXCEPT ![i].on = get_time, ![i].active = TRUE,
                             ![i].released = FALSE]
             ELSE ns
        ELSE Append(ns, create_note(voice.note_id, voice.instrument_id))

\* add_notes panics where create_note overflows, in a build that checks
AddPanics(ns, voice) ==
    /\ FirstIndex({j \in 1..Len(ns) : AddMatches(ns[j], voice)}) = 0
    /\ Overflows(voice.note_id, 64)
    /\ build = "debug"

\* one iteration of the loop of add_notes
AddVoice(c) ==
    /\ pc[c] = "run" /\ op[c] = "add" /\ voices[c] # <<>>
    /\ IF AddPanics(notes, Head(voices[c]))
       THEN Panic(c)
       ELSE /\ notes' = Added(notes, Head(voices[c]))
            /\ voices' = [voices EXCEPT ![c] = Tail(voices[c])]
            /\ UNCHANGED <<pc, lock, poisoned>>
    /\ UNCHANGED <<tick, build, rpc, rtime, op, ret, calls>>
    /\ UNCHANGED <<envvars, mixvars, seqvars>>

\* remove_notes: the Note a Voice is found to match
RemoveMatches(n, voice) ==
    n.id = WrappingAdd(voice.note_id, 64) /\ n.instrument_id = voice.instrument_id

\* remove_notes: the collection after the body of the loop has run for voice
Removed(ns, voice) ==
    LET i == FirstIndex({j \in 1..Len(ns) : RemoveMatches(ns[j], voice)})
    IN  IF i # 0 /\ FLe(ns[i].off, ns[i].on)
        THEN [ns EXCEPT ![i].off = get_time, ![i].released = TRUE]
        ELSE ns

\* remove_notes panics where the closure of find overflows, in a build that
\* checks: the closure runs as soon as there is a Note to test
RemovePanics(ns, voice) ==
    /\ ns # <<>>
    /\ Overflows(voice.note_id, 64)
    /\ build = "debug"

\* one iteration of the loop of remove_notes
RemoveVoice(c) ==
    /\ pc[c] = "run" /\ op[c] = "remove" /\ voices[c] # <<>>
    /\ IF RemovePanics(notes, Head(voices[c]))
       THEN Panic(c)
       ELSE /\ notes' = Removed(notes, Head(voices[c]))
            /\ voices' = [voices EXCEPT ![c] = Tail(voices[c])]
            /\ UNCHANGED <<pc, lock, poisoned>>
    /\ UNCHANGED <<tick, build, rpc, rtime, op, ret, calls>>
    /\ UNCHANGED <<envvars, mixvars, seqvars>>

\* the call returns: the guard is dropped; get_simultaneous_notes returns len()
Return(c) ==
    /\ pc[c] = "run" /\ voices[c] = <<>>
    /\ lock' = "none"
    /\ pc' = [pc EXCEPT ![c] = "idle"]
    /\ op' = [op EXCEPT ![c] = "none"]
    /\ ret' = IF op[c] = "count" THEN [ret EXCEPT ![c] = Len(notes)] ELSE ret
    /\ UNCHANGED <<tick, notes, poisoned, build, rpc, rtime, voices, calls>>
    /\ UNCHANGED <<envvars, mixvars, seqvars>>

Render == RenderLoad \/ RenderLock \/ RenderEval \/ RenderRetain \/ RenderAdvance

Next ==
    \/ RenderLoad
    \/ RenderLock
    \/ RenderEval
    \/ RenderRetain
    \/ RenderAdvance
    \/ \E c \in Ctl : Call(c)
    \/ \E c \in Ctl : Lock(c)
    \/ \E c \in Ctl : AddVoice(c)
    \/ \E c \in Ctl : RemoveVoice(c)
    \/ \E c \in Ctl : Return(c)

Spec == Init /\ [][Next]_vars

\* the steps of a call once it has been made
Progress(c) == Lock(c) \/ AddVoice(c) \/ RemoveVoice(c) \/ Return(c)

\* a scheduler that lets every thread run that can: the render thread, and
\* every control thread that is inside a call
FairSpec ==
    /\ Spec
    /\ WF_vars(Render)
    /\ \A c \in Ctl : WF_vars(Progress(c))

(***************************************************************************)
(* oscillators.rs: one call of EnvelopeADSR::amplitude, over the envelopes *)
(* of the crate's instruments and times around their phase boundaries.     *)
(***************************************************************************)
\* the envelopes: the default one and those Bell::new, Harmonica::new and
\* Drumkick::new build
Envelopes == {EnvelopeDefault, Bell.env, Harmonica.env, Drumkick.env}

Half == Fin(1, 2)

\* life times around the phases of env: the start, mid-attack, the end of the
\* attack, mid-decay, the end of the decay, and the sustain
Lives(env) ==
    {Zero,
     FMul(Half, env.attack_time),
     env.attack_time,
     FAdd(env.attack_time, FMul(Half, env.decay_time)),
     FAdd(env.attack_time, env.decay_time),
     FAdd(FAdd(env.attack_time, env.decay_time), Half)}

\* times since the release: at it, mid-release, at its end, after it
Releases(env) ==
    {Zero, FMul(Half, env.release_time), env.release_time,
     FAdd(env.release_time, Half)}

\* the arguments (time, time_on, time_off) of the call: a Note that is
\* sounding (time_off = 0.0) or was released at some life time, evaluated at
\* some life time or some time since its release
EnvArgs(env) ==
    {[time |-> t, time_on |-> on, time_off |-> off] :
        <<on, off, t>> \in
            {<<on, off, t>> \in
                {<<on, off, FAdd(on, l)>> :
                    <<on, off, l>> \in {Zero, Half}
                        \X ({Zero} \cup {FAdd(a, b) : <<a, b>> \in {Zero, Half} \X Lives(env)})
                        \X Lives(env)}
                \cup
                {<<on, off, FAdd(off, r)>> :
                    <<on, off, r>> \in {Zero, Half}
                        \X {FAdd(a, b) : <<a, b>> \in {Zero, Half} \X Lives(env)}
                        \X Releases(env)} :
             off = Zero \/ FGe(off, on)}}

EnvInit ==
    /\ envelope \in Envelopes
    /\ args \in EnvArgs(envelope)
    /\ amp = NoValue
    /\ PlayerIdle /\ MixIdle /\ SeqIdle

\* self.amplitude(time, time_on, time_off)
EnvAmplitude ==
    /\ amp = NoValue
    /\ amp' = amplitude(envelope, args.time, args.time_on, args.time_off)
    /\ UNCHANGED <<envelope, args, playervars, mixvars, seqvars>>

EnvNext == EnvAmplitude

EnvSpec == EnvInit /\ [][EnvNext]_vars

(***************************************************************************)
(* player.rs: the mixing of the tick callback, followed through the values *)
(* sound() returns for the Notes of the collection.                        *)
(***************************************************************************)
\* values of sound(): amplitude * (1.00 * osc + 0.50 * osc + 0.25 * osc)
\* * volume lies between -1.75 and 1.75, and is NaN where the amplitude is
SoundValues == {Fin(-7, 4), Fin(-1, 2), Zero, Fin(1, 2), Fin(7, 4), NaN}

\* the amplitude_limit argument of Player::new: None or Some(limit)
Limits == {NoValue, Fin(1, 10), Fin(1, 4)}

\* the sequences over S of length n
RECURSIVE Tuples(_, _)
Tuples(S, n) ==
    IF n = 0 THEN {<<>>}
    ELSE {<<x>> \o t : <<x, t>> \in S \X Tuples(S, n - 1)}

\* let mut mixed_output = 0.0, before the loop over the Notes
MixInit ==
    /\ amplitude_limit \in Limits
    /\ sounds \in UNION {Tuples(SoundValues, n) : n \in 0..MaxSounds}
    /\ mixed_output = Zero
    /\ res = NoValue
    /\ PlayerIdle /\ EnvIdle /\ SeqIdle

\* mixed_output += sound
MixSound ==
    /\ sounds # <<>>
    /\ mixed_output' = FAdd(mixed_output, Head(sounds))
    /\ sounds' = Tail(sounds)
    /\ UNCHANGED <<amplitude_limit, res, playervars, envvars, seqvars>>

\* let mut res = mixed_output * 0.2;
\* if let Some(limit) = amplitude_limit { res = res.min(limit) }
Limited(mixed, limit) ==
    LET scaled == FMul(mixed, Fin(2, 10))
    IN  IF limit # NoValue THEN FMin(scaled, limit) ELSE scaled

\* the loop is over: the sample is returned
MixReturn ==
    /\ sounds = <<>>
    /\ res = NoValue
    /\ res' = Limited(mixed_output, amplitude_limit)
    /\ UNCHANGED <<amplitude_limit, sounds, mixed_output, playervars, envvars, seqvars>>

MixNext == MixSound \/ MixReturn

MixSpec == MixInit /\ [][MixNext]_vars

(***************************************************************************)
(* sequencer.rs: a PercussionSequencer, its clock and the calls of update. *)
(***************************************************************************)
\* what one tick of the clock is worth, in seconds
Quantum == Fin(1, 20)

\* Duration::as_secs_f64 of a Duration of so many ticks of the clock:
\* (self.secs as f64) + (self.nanos as f64) / (NANOS_PER_SEC as f64)
as_secs_f64(ticks) ==
    LET duration == Fin(ticks * Quantum.n, Quantum.d)
    IN  DAdd(DInt(duration.n \div duration.d),
             DDiv(DInt(duration.n % duration.d), duration.d))

\* as_secs_f64 of every Duration the clock of the model can show
Seconds == [ticks \in 0..MaxClock |-> as_secs_f64(ticks)]

\* the builders the model starts a sequencer from: the arguments tempo, beats
\* and sub_beats of PercussionSequencerBuilder::new and the const BEATS of the
\* type.  Neither new nor start relates beats * sub_beats to BEATS or
\* restricts tempo.  The tempo of every builder is a whole number.
Builders ==
    {[tempo |-> Fin(120, 1), beats |-> 4, sub_beats |-> 4, BEATS |-> 16],
     [tempo |-> Fin(240, 1), beats |-> 1, sub_beats |-> 2, BEATS |-> 2],
     [tempo |-> Fin(120, 1), beats |-> 1, sub_beats |-> 3, BEATS |-> 3],
     [tempo |-> Fin(300, 1), beats |-> 1, sub_beats |-> 2, BEATS |-> 2],
     [tempo |-> Fin(240, 1), beats |-> 2, sub_beats |-> 2, BEATS |-> 2],
     [tempo |-> Fin(240, 1), beats |-> 1, sub_beats |-> 2, BEATS |-> 4],
     [tempo |-> Zero, beats |-> 1, sub_beats |-> 2, BEATS |-> 2],
     [tempo |-> Fin(-240, 1), beats |-> 1, sub_beats |-> 2, BEATS |-> 2],
     [tempo |-> Fin(120, 1), beats |-> 0, sub_beats |-> 2, BEATS |-> 0],
     [tempo |-> Fin(120, 1), beats |-> 0, sub_beats |-> 2, BEATS |-> 2],
     [tempo |-> Fin(120, 1), beats |-> 2, sub_beats |-> 0, BEATS |-> 0]}

\* the [PercussiveState; BEATS] a track of this kind is added with: the kick
\* on every other slot from slot 0, the hi-hat on every slot
Pattern(kind, BEATS) ==
    [i \in 1..BEATS |->
        IF kind = "Drumkick" /\ i % 2 = 0 THEN "Rest" ELSE "Beat"]

\* add_track: the channels after no call, one call, two calls
Tracks(BEATS) ==
    {[kind \in K |-> Pattern(kind, BEATS)] :
        K \in {{}, {"Drumkick"}, {"Drumkick", "DrumHiHat"}}}

\* PercussionSequencerBuilder::start
start(b, channels) ==
    [beat_time |-> DDiv(DDiv(DInt(60), b.tempo.n), b.sub_beats),
     current_beat |-> 0,
     total_beats |-> b.sub_beats * b.beats,
     accumulate |-> DZero,
     previous |-> 0,
     channels |-> channels]

SeqInit ==
    /\ sequencer \in
          UNION {{start(b, channels) : channels \in Tracks(b.BEATS)} : b \in Builders}
    /\ now = 0
    /\ upc = "idle"
    /\ elapsed_time = DZero
    /\ result = <<>>
    /\ reached = <<>>
    /\ measured = 0
    /\ entry = [accumulate |-> DZero, advances |-> 0]
    /\ PlayerIdle /\ EnvIdle /\ MixIdle

\* time passes
ClockAdvance ==
    /\ now < MaxClock
    /\ now' = now + 1
    /\ UNCHANGED <<sequencer, upc, elapsed_time, result, reached, measured, entry>>
    /\ UNCHANGED <<playervars, envvars, mixvars>>

\* let elapsed_time = self.previous.elapsed().as_secs_f64()
UpdateElapsed ==
    /\ upc \in {"idle", "returned"}
    /\ elapsed_time' = Seconds[now - sequencer.previous]
    /\ measured' = measured + (now - sequencer.previous)
    /\ upc' = "elapsed"
    /\ UNCHANGED <<sequencer, now, result, reached, entry>>
    /\ UNCHANGED <<playervars, envvars, mixvars>>

\* self.accumulate += elapsed_time
Accumulated(accumulate, elapsed) == DAdd(accumulate, elapsed)

\* self.previous = Instant::now(); let mut result = Vec::new();
\* self.accumulate += elapsed_time
UpdateAccumulate ==
    /\ upc = "elapsed"
    /\ sequencer' = [sequencer EXCEPT
                        !.previous = now,
                        !.accumulate = Accumulated(@, elapsed_time)]
    /\ result' = <<>>
    /\ entry' = [accumulate |-> sequencer'.accumulate, advances |-> Len(reached)]
    /\ upc' = "loop"
    /\ UNCHANGED <<now, elapsed_time, reached, measured>>
    /\ UNCHANGED <<playervars, envvars, mixvars>>

\* while self.accumulate >= self.beat_time
Crosses(accumulate, beat_time) == DGe(accumulate, beat_time)

\* a wrap that lets the index reach total_beats
WrappedLate(beat, total_beats) == IF beat > total_beats THEN 0 ELSE beat

\* a wrap that comes one beat early
WrappedEarly(beat, total_beats) == IF beat >= total_beats - 1 THEN 0 ELSE beat

\* if self.current_beat >= self.total_beats { self.current_beat = 0 }
Wrapped(beat, total_beats) == IF beat >= total_beats THEN 0 ELSE beat

\* channel.1[self.current_beat] panics: some track has no such slot
OutOfRange(channels, beat) ==
    \E kind \in DOMAIN channels : beat + 1 > Len(channels[kind])

\* the tracks whose slot at the beat is Rest
Resting(channels, beat) ==
    {kind \in DOMAIN channels : channels[kind][beat + 1] = "Rest"}

\* the tracks whose slot at the beat is Beat
Beating(channels, beat) ==
    {kind \in DOMAIN channels : channels[kind][beat + 1] = "Beat"}

\* the orders in which the iteration of the HashMap may visit a set of tracks
RECURSIVE Orders(_)
Orders(S) ==
    IF S = {} THEN {<<>>}
    ELSE UNION {{<<x>> \o rest : rest \in Orders(S \ {x})} : x \in S}

\* Voice::new_inner(instrument, instrument_id, 64, instrument_name) for every
\* track of order.  The field advance is history (the advance that pushed
\* the Voice) and is read by no action.
Pushed(order, advance) ==
    [i \in 1..Len(order) |->
        [instrument_id |-> order[i], note_id |-> 64, advance |-> advance]]

\* one iteration of the loop of update
UpdateAdvance ==
    /\ upc = "loop"
    /\ Crosses(sequencer.accumulate, sequencer.beat_time)
    /\ Len(reached) < MaxAdvances
    /\ LET beat == Wrapped(sequencer.current_beat + 1, sequencer.total_beats)
       IN  /\ sequencer' = [sequencer EXCEPT
                               !.accumulate = DSub(@, sequencer.beat_time),
                               !.current_beat = beat]
           /\ reached' = Append(reached, beat)
           /\ IF OutOfRange(sequencer.channels, beat)
              THEN upc' = "panicked" /\ result' = result
              ELSE /\ upc' = upc
                   /\ \E order \in Orders(Beating(sequencer.channels, beat)) :
                         result' = result \o Pushed(order, Len(reached) + 1)
    /\ UNCHANGED <<now, elapsed_time, measured, entry>>
    /\ UNCHANGED <<playervars, envvars, mixvars>>

\* the loop is left and result is returned
UpdateReturn ==
    /\ upc = "loop"
    /\ ~Crosses(sequencer.accumulate, sequencer.beat_time)
    /\ upc' = "returned"
    /\ UNCHANGED <<sequencer, now, elapsed_time, result, reached, measured, entry>>
    /\ UNCHANGED <<playervars, envvars, mixvars>>

SeqNext ==
    \/ ClockAdvance
    \/ UpdateElapsed
    \/ UpdateAccumulate
    \/ UpdateAdvance
    \/ UpdateReturn

SeqSpec == SeqInit /\ [][SeqNext]_vars

(***************************************************************************)
(* Vocabulary of the properties.                                           *)
(***************************************************************************)
\* the Note was created from a Voice of this pitch and kind
IsNoteOf(n, voice) ==
    n.voice_pitch = voice.note_id /\ n.instrument_id = voice.instrument_id

\* the indices of the Notes of a Voice's pitch and kind
NotesOf(ns, voice) == {i \in DOMAIN ns : IsNoteOf(ns[i], voice)}

\* the Note is sounding: no remove_notes has stamped it and on > off
Sounding(n) == ~n.released /\ FGt(n.on, n.off)

\* this step is control thread c running the loop of add_notes for one Voice
IsAddStep(c) ==
    /\ pc[c] = "run" /\ op[c] = "add" /\ voices[c] # <<>>
    /\ voices'[c] = Tail(voices[c])

\* this step is control thread c running the loop of remove_notes for one Voice
IsRemoveStep(c) ==
    /\ pc[c] = "run" /\ op[c] = "remove" /\ voices[c] # <<>>
    /\ voices'[c] = Tail(voices[c])

(***************************************************************************)
(* Properties.                                                             *)
(***************************************************************************)
\* C1: add_notes with a Voice whose pitch and kind are those of the one Note
\* of that pitch and kind in the collection, that Note sounding, leaves exactly
\* one Note of that pitch and kind: the collection does not grow.
C1_RetriggerLeavesOneNote ==
    [][\A c \in Ctl :
          (/\ IsAddStep(c)
           /\ Cardinality(NotesOf(notes, Head(voices[c]))) = 1
           /\ \A i \in NotesOf(notes, Head(voices[c])) : Sounding(notes[i]))
          => /\ Len(notes') = Len(notes)
             /\ Cardinality(NotesOf(notes', Head(voices[c]))) = 1]_vars

\* C2: add_notes with a Voice that matches (pitch and kind) an active Note
\* that is not mid-release retriggers that Note: its on becomes the current
\* time and it is active.
C2_RetriggerSetsOnTime ==
    [][\A c \in Ctl :
          IsAddStep(c) =>
            \A i \in NotesOf(notes, Head(voices[c])) :
                (notes[i].active /\ Sounding(notes[i]))
                => /\ i \in DOMAIN notes'
                   /\ notes'[i].on = tick
                   /\ notes'[i].active]_vars

\* C3: add_notes with a Voice that has no matching Note, or whose matching
\* Notes are all mid-release, appends a new Note with on = current time,
\* off = 0 and active, and leaves the Notes already there as they were.
C3_AddCreatesNote ==
    [][\A c \in Ctl :
          (/\ IsAddStep(c)
           /\ \A i \in NotesOf(notes, Head(voices[c])) : notes[i].released)
          => /\ Len(notes') = Len(notes) + 1
             /\ SubSeq(notes', 1, Len(notes)) = notes
             /\ IsNoteOf(notes'[Len(notes')], Head(voices[c]))
             /\ notes'[Len(notes')].on = tick
             /\ notes'[Len(notes')].off = Zero
             /\ notes'[Len(notes')].active]_vars

\* C4: remove_notes with the pitch and kind of a Note that add_notes inserted
\* and that is still sounding sets that Note's off to the current time, so
\* that off >= on, and the Note stays in the collection.
C4_RemoveStampsOffTime ==
    [][\A c \in Ctl :
          IsRemoveStep(c) =>
            /\ Len(notes') = Len(notes)
            /\ \A i \in NotesOf(notes, Head(voices[c])) :
                  ~notes[i].released
                  => /\ notes'[i].off = tick
                     /\ FGe(notes'[i].off, notes'[i].on)]_vars

\* C5: remove_notes for a pitch and kind with no Note, or whose Notes have all
\* been released by an earlier remove_notes, leaves the collection unchanged.
C5_RemoveIdempotent ==
    [][\A c \in Ctl :
          (/\ IsRemoveStep(c)
           /\ \A i \in NotesOf(notes, Head(voices[c])) : notes[i].released)
          => notes' = notes]_vars

\* the tick callback may flag the Note finished at this time: it has been
\* released and its envelope amplitude is 0, or its instrument is percussive
\* and its maximum lifetime has elapsed
MayFinish(n, time) ==
    \/ /\ n.released
       /\ amplitude(Instrument(n.instrument_id).env, time, n.on, n.off) = Zero
    \/ /\ n.instrument_id \in Percussive
       /\ FGe(FSub(time, n.on), Instrument(n.instrument_id).max_life_time)

\* C6: the tick callback marks a Note inactive only if it has been released
\* and its amplitude has reached 0, or it is percussive and its maximum
\* lifetime has elapsed; a sustained Note that has not been released is never
\* marked.
C6_FinishedOnlyWhenDecayedOrExpired ==
    [][(rpc = "eval" /\ rpc' = "retain") =>
          \A i \in DOMAIN notes :
              (notes[i].active /\ ~notes'[i].active) => MayFinish(notes[i], rtime)]_vars

\* the Note is due at this time: released and past its release time, or
\* percussive and past its maximum lifetime
Due(n, time) ==
    \/ /\ n.instrument_id \notin Percussive
       /\ n.released
       /\ FGe(time, FAdd(n.off, Instrument(n.instrument_id).env.release_time))
    \/ /\ n.instrument_id \in Percussive
       /\ FGe(FSub(time, n.on), Instrument(n.instrument_id).max_life_time)

\* C7: once a Note is due, the next tick removes it: when the callback of a
\* frame has returned, no Note that was due at the frame's time is left in
\* the collection.
C7_DueNotesPruned ==
    rpc = "advance" => \A i \in DOMAIN notes : ~Due(notes[i], rtime)

\* the threads inside the critical section of the Mutex
InCritical ==
    {c \in Ctl : pc[c] = "run"}
        \cup (IF rpc \in {"eval", "retain"} THEN {"render"} ELSE {})

\* at most one thread is inside, and it is the holder of the lock
MutualExclusion ==
    /\ Cardinality(InCritical) <= 1
    /\ \A t \in InCritical : lock = t
    /\ lock # "none" => lock \in InCritical

\* the collection changes only in a step of the thread that holds the lock
OnlyHolderWrites ==
    notes' # notes =>
        \/ lock = "render" /\ rpc' # rpc
        \/ \E c \in Ctl : lock = c /\ voices'[c] # voices[c]

\* C8: all access to the Note collection is serialized by the one lock: at
\* most one of the tick callback, add_notes, remove_notes and
\* get_simultaneous_notes is inside its critical section, and the collection
\* changes only in steps of the thread that is inside.
C8_AccessSerialized == []MutualExclusion /\ [][OnlyHolderWrites]_vars

\* a control thread waits for the lock while the tick callback, which holds
\* it, is about to prune a Note it has found finished
C8_Witness ==
    /\ rpc = "retain" /\ lock = "render"
    /\ \E c \in Ctl : pc[c] = "lock"
    /\ \E i \in DOMAIN notes : ~notes[i].active

\* C9: no deadlock: under a fair scheduler every call of add_notes,
\* remove_notes and get_simultaneous_notes that has been made returns (or
\* panics), and every tick callback the render thread has entered returns
\* (or panics).
C9_EveryCallCompletes ==
    /\ \A c \in Ctl : (pc[c] \in {"lock", "run"}) ~> (pc[c] \in {"idle", "panicked"})
    /\ (rpc \in {"lock", "eval", "retain"}) ~> (rpc \in {"advance", "panicked"})

\* the render thread and a control thread both wait for the lock the other
\* control thread holds in the middle of a batch
C9_Witness ==
    /\ rpc = "lock"
    /\ \E c \in Ctl :
          /\ lock = c /\ Len(voices[c]) = 1 /\ notes # <<>>
          /\ \A d \in Ctl \ {c} : pc[d] = "lock"

\* a step that writes the time counter is the render thread's fetch_add of
\* one time step, taken after the callback of the frame has returned
TickWrittenByRenderOnly ==
    tick' # tick =>
        /\ rpc = "advance" /\ rpc' = "load"
        /\ lock # "render"
        /\ tick' = FAdd(tick, time_step)
        /\ FGt(tick', tick)
        /\ UNCHANGED <<notes, pc, op, voices, ret>>

\* every frame ends with the advance: the render thread leaves a frame only
\* through a step that writes the counter, and enters the advance only from
\* the end of the callback
OncePerFrame ==
    /\ (rpc = "advance" /\ rpc' # rpc) => tick' # tick
    /\ (rpc' = "advance" /\ rpc # "advance") => rpc = "retain"
    /\ (rpc' = "load" /\ rpc # "load") => rpc = "advance"

\* C10: the time counter starts at 0, only increases, and is written only by
\* the render thread, by one time step per frame after the frame's callback
\* has returned; the control threads only read it.
C10_TickMonotonicRenderOnly ==
    /\ tick = Zero
    /\ [][TickWrittenByRenderOnly /\ OncePerFrame]_vars

\* a Note carries the value add_notes read from the counter after the render
\* thread has advanced it
C10_Witness ==
    /\ FGt(tick, time_step)
    /\ rpc = "load"
    /\ \E i \in DOMAIN notes : notes[i].on = tick

\* C11: whenever the tick callback evaluates a Note at the frame's time t, the
\* Note's on and off, as add_notes and remove_notes stamped them from the
\* counter, are <= t: no Note is evaluated with a timestamp in its future.
C11_TimestampsNotInFuture ==
    rpc = "eval" =>
        \A i \in DOMAIN notes :
            FLe(notes[i].on, rtime) /\ FLe(notes[i].off, rtime)

\* the callback evaluates a Note that was added and released while the frame
\* was being rendered, at the frame's time
C11_Witness ==
    /\ rpc = "eval" /\ FGt(rtime, Zero)
    /\ \E i \in DOMAIN notes :
          notes[i].on = rtime /\ notes[i].off = rtime /\ notes[i].released

\* C13: add_notes and remove_notes are total over every pitch a Voice can
\* carry: no call panics, the Mutex is never poisoned, and the stored id of a
\* Note is its pitch + 64 without wrapping, so distinct pitches never alias.
C13_TotalOverPitches ==
    /\ ~poisoned
    /\ \A c \in Ctl : pc[c] # "panicked"
    /\ rpc # "panicked"
    /\ \A i \in DOMAIN notes : notes[i].id = notes[i].voice_pitch + 64

\* C14: every Note that no remove_notes has stamped since it was created or
\* retriggered is sounding, off < on, also when it was created at time 0; and
\* every Note that has been released has off >= on.
C14_SoundingUntilReleased ==
    \A i \in DOMAIN notes :
        /\ ~notes[i].released => FGt(notes[i].on, notes[i].off)
        /\ notes[i].released => FGe(notes[i].off, notes[i].on)

\* the call of amplitude has returned
Returned == amp # NoValue

\* the arguments are those of a released Note / of a sounding Note
ReleasedArgs == FGe(args.time_off, args.time_on)
SoundingArgs == FGt(args.time_on, args.time_off)

\* the level an attack/decay/sustain envelope has reached at life_time: it
\* rises linearly to start_amplitude over attack_time, falls linearly to
\* sustain_amplitude over decay_time, and stays there
Level(env, life_time) ==
    IF ~FGe(life_time, env.attack_time)
    THEN FDiv(FMul(life_time, env.start_amplitude), env.attack_time)
    ELSE IF ~FGe(life_time, FAdd(env.attack_time, env.decay_time))
    THEN FAdd(env.start_amplitude,
              FDiv(FMul(FSub(life_time, env.attack_time),
                        FSub(env.sustain_amplitude, env.start_amplitude)),
                   env.decay_time))
    ELSE env.sustain_amplitude

\* C18: for a released Note the amplitude at time = time_off is the level the
\* attack/decay curve had reached at time_off - time_on, not the sustain
\* amplitude, and from there it falls linearly to 0 at time_off + release_time.
C18_ReleaseFromInFlightLevel ==
    (Returned /\ ReleasedArgs) =>
        LET level == Level(envelope, FSub(args.time_off, args.time_on))
            end == FAdd(args.time_off, envelope.release_time)
        IN  /\ args.time = args.time_off => FEq(amp, level)
            /\ (FGe(args.time, args.time_off) /\ FLe(args.time, end))
                  => FEq(FMul(amp, envelope.release_time),
                         FMul(level, FSub(end, args.time)))
            /\ args.time = end => FEq(amp, Zero)

\* C19: the amplitude is never negative: for time >= time_on the call returns
\* a value >= 0, and for a released Note exactly 0 at every
\* time >= time_off + release_time.
C19_AmplitudeNeverNegative ==
    (Returned /\ FGe(args.time, args.time_on)) =>
        /\ FGe(amp, Zero)
        /\ (/\ ReleasedArgs
            /\ FGe(args.time, FAdd(args.time_off, envelope.release_time)))
              => FEq(amp, Zero)

\* C20: for a sounding Note the envelope is continuous across its phases: at
\* life time attack_time the attack formula and the decay formula both give
\* start_amplitude, which is what the call returns, and at life time
\* attack_time + decay_time the decay formula gives sustain_amplitude, which
\* is what the call returns there and afterwards.
C20_ContinuousAcrossPhases ==
    (Returned /\ SoundingArgs) =>
        LET life_time == FSub(args.time, args.time_on)
            decayed == FAdd(envelope.attack_time, envelope.decay_time)
        IN  /\ life_time = envelope.attack_time
                  => /\ FEq(AttackCurve(envelope, life_time), envelope.start_amplitude)
                     /\ FEq(DecayCurve(envelope, life_time), envelope.start_amplitude)
                     /\ FEq(amp, envelope.start_amplitude)
            /\ life_time = decayed
                  => /\ FEq(DecayCurve(envelope, life_time), envelope.sustain_amplitude)
                     /\ FEq(amp, envelope.sustain_amplitude)
            /\ FGt(life_time, decayed) => FEq(amp, envelope.sustain_amplitude)

\* C12: when an amplitude limit is configured, the sample the tick callback
\* returns is within it in magnitude, for negative sums as for positive ones:
\* -limit <= sample <= limit.
C12_SampleWithinLimit ==
    (res # NoValue /\ amplitude_limit # NoValue) =>
        /\ FLe(res, amplitude_limit)
        /\ FGe(res, FNeg(amplitude_limit))

\* the multiples of the whole number b # LZero that fit into a, from k on
RECURSIVE Fits(_, _, _)
Fits(a, b, k) == IF LLe(LMul(b, k + 1), a) THEN Fits(a, b, k + 1) ELSE k

\* floor(a / b) of the exact quotient of a finite a >= 0 by b # 0, both
\* brought to the smaller of the two exponents
DFloorDiv(a, b) ==
    IF b.k = "inf" \/ a.m = LZero THEN 0
    ELSE LET e == IF a.e <= b.e THEN a.e ELSE b.e
             x == LShl(a.m, a.e - e)
             y == LShl(b.m, b.e - e)
             k == Fits(x, y, 0)
         IN  IF b.s > 0 THEN k
             ELSE IF LMul(y, k) = x THEN -k ELSE -(k + 1)

\* the advances of one update that enters its loop with accumulate, as the
\* loop of update counts them, from n on
RECURSIVE Loops(_, _, _)
Loops(accumulate, beat_time, n) ==
    IF Crosses(accumulate, beat_time) /\ n <= MaxAdvances
    THEN Loops(DSub(accumulate, beat_time), beat_time, n + 1)
    ELSE n

\* a call of update has returned and no other is under way
UpdateReturned == upc = "returned"

\* the advances the last call of update made
AdvancesOfCall == Len(reached) - entry.advances

\* C15: an update whose accumulated elapsed time is A makes exactly
\* floor(A / beat_time) advances, and the Voices it returns are grouped by
\* advance, in the order the beat indices were reached: the Voices of an
\* earlier advance of the call precede those of a later one.
C15_BeatAccuracy ==
    UpdateReturned =>
        /\ AdvancesOfCall = DFloorDiv(entry.accumulate, sequencer.beat_time)
        /\ \A i \in DOMAIN result :
              result[i].advance \in (entry.advances + 1)..Len(reached)
        /\ \A i, j \in DOMAIN result :
              i < j => result[i].advance <= result[j].advance

\* the index the k-th advance since start reaches
IndexAfter(k, total_beats) == IF total_beats = 0 THEN 0 ELSE k % total_beats

\* C16: no beat is dropped or duplicated, however the elapsed time is split
\* into calls of update: after every call the advances made since start, and
\* the beat indices they reached, are those of one update over the whole of
\* the elapsed time measured, and 0 <= accumulate < beat_time.
C16_NoBeatDroppedOrDuplicated ==
    UpdateReturned =>
        /\ Len(reached) = Loops(Seconds[measured], sequencer.beat_time, 0)
        /\ \A k \in DOMAIN reached :
              reached[k] = IndexAfter(k, sequencer.total_beats)
        /\ DGe(sequencer.accumulate, DZero)
        /\ DGt(sequencer.beat_time, sequencer.accumulate)

\* this step is an advance of the loop of update
IsAdvance == Len(reached') = Len(reached) + 1

\* C17 as stated: in every reachable state 0 <= current_beat < total_beats,
\* and each advance moves current_beat to (current_beat + 1) mod total_beats.
C17_BeatIndexWraps ==
    /\ [](sequencer.current_beat \in 0..(sequencer.total_beats - 1))
    /\ [][IsAdvance =>
            /\ sequencer.total_beats # 0
            /\ sequencer'.current_beat =
                  (sequencer.current_beat + 1) % sequencer.total_beats]_vars

\* C17, amended: where total_beats >= 1, in every reachable state
\* 0 <= current_beat < total_beats and each advance moves current_beat to
\* (current_beat + 1) mod total_beats; where total_beats = 0 (beats or
\* sub_beats is 0), current_beat is 0 in every reachable state.
C17_BeatIndexWrapsWhereBeats ==
    /\ [](IF sequencer.total_beats >= 1
          THEN sequencer.current_beat \in 0..(sequencer.total_beats - 1)
          ELSE sequencer.current_beat = 0)
    /\ [][IsAdvance =>
            sequencer'.current_beat =
                IF sequencer.total_beats >= 1
                THEN (sequencer.current_beat + 1) % sequencer.total_beats
                ELSE 0]_vars

\* the index has wrapped and moved on
C17_Witness ==
    /\ sequencer.total_beats >= 2
    /\ Len(reached) > sequencer.total_beats
    /\ sequencer.current_beat = 1

\* C21: add_notes matches on the same pitch and kind only: adding a Voice
\* never changes on, off or active of a Note created from a Voice of another
\* pitch or kind, and is never suppressed by such a Note (where no Note of
\* its own pitch and kind is there, a Note is created); remove_notes changes
\* Notes of its Voice's pitch and kind only.
C21_MatchesSamePitchAndKind ==
    [][\A c \in Ctl :
          /\ IsAddStep(c) =>
                /\ \A i \in DOMAIN notes \ NotesOf(notes, Head(voices[c])) :
                      notes'[i] = notes[i]
                /\ NotesOf(notes, Head(voices[c])) = {}
                      => /\ Len(notes') = Len(notes) + 1
                         /\ IsNoteOf(notes'[Len(notes')], Head(voices[c]))
          /\ IsRemoveStep(c) =>
                /\ Len(notes') = Len(notes)
                /\ \A i \in DOMAIN notes \ NotesOf(notes, Head(voices[c])) :
                      notes'[i] = notes[i]]_vars

\* C22: finished Notes are dropped in the tick that flags them: whenever the
\* lock is free, and whenever add_notes, remove_notes, get_simultaneous_notes
\* or a tick that has just taken the lock looks at the collection, every Note
\* in it is active.
C22_NoFlaggedNoteObserved ==
    (lock = "none" \/ lock \in Ctl \/ rpc = "eval") =>
        \A i \in DOMAIN notes : notes[i].active

\* the lock is free after a tick that dropped a Note and kept another:
\* get_simultaneous_notes had counted more Notes than are left
C22_Witness ==
    /\ lock = "none" /\ rpc = "advance"
    /\ notes # <<>>
    /\ \E c \in Ctl : ret[c] > Len(notes)

\* the Voices the step has pushed to result
NewVoices == (Len(result) + 1)..Len(result')

\* the track has a slot for the beat index
HasSlot(kind, beat) == beat + 1 <= Len(sequencer.channels[kind])

\* C23: on each advance update emits exactly one Voice for every track whose
\* slot at the newly reached beat index is Beat and none for a track whose
\* slot is Rest, and every Voice emitted carries pitch 64 and the kind of its
\* track.
C23_OneVoicePerBeatingTrack ==
    [][IsAdvance =>
          /\ SubSeq(result', 1, Len(result)) = result
          /\ \A kind \in DOMAIN sequencer.channels :
                Cardinality({i \in NewVoices : result'[i].instrument_id = kind})
                    = IF /\ HasSlot(kind, sequencer'.current_beat)
                         /\ sequencer.channels[kind][sequencer'.current_beat + 1] = "Beat"
                      THEN 1 ELSE 0
          /\ \A i \in NewVoices :
                /\ result'[i].note_id = 64
                /\ result'[i].instrument_id \in DOMAIN sequencer.channels]_vars

\* update has returned the Voices of an advance on which the hi-hat beat and
\* the kick rested, and of one on which the kick beat
C23_Witness ==
    /\ UpdateReturned
    /\ DOMAIN sequencer.channels = {"Drumkick", "DrumHiHat"}
    /\ \E i, j \in DOMAIN result :
          /\ result[i].instrument_id = "DrumHiHat"
          /\ \A h \in DOMAIN result :
                result[h].advance = result[i].advance
                    => result[h].instrument_id # "Drumkick"
          /\ result[j].instrument_id = "Drumkick"

\* C24: update terminates for every sequencer the builder can start: every
\* iteration of its loop strictly decreases accumulate, by one beat_time,
\* and leaves it >= 0, until it is below beat_time.
C24_LoopDecreasesAccumulate ==
    [][IsAdvance =>
          /\ DGt(sequencer.accumulate, sequencer'.accumulate)
          /\ DGe(sequencer'.accumulate, DZero)
          /\ sequencer'.accumulate
                = DSub(sequencer.accumulate, sequencer.beat_time)]_vars

\* every window of total_beats consecutive advances visits every slot index
\* of 0..total_beats - 1 exactly once
EveryWindowVisitsAll ==
    \A first \in 1..(Len(reached) - sequencer.total_beats + 1) :
        \A slot \in 0..(sequencer.total_beats - 1) :
            Cardinality({k \in first..(first + sequencer.total_beats - 1) :
                            reached[k] = slot}) = 1

\* C25 as stated: the beat indices the advances reach after start are
\* 1, 2, ..., total_beats - 1, 0, 1, ...: index 0 is first reached on the
\* total_beats-th advance, and any total_beats consecutive advances visit
\* every slot index exactly once.
C25_IndicesInRotation ==
    /\ \A k \in DOMAIN reached :
          /\ sequencer.total_beats # 0
          /\ reached[k] = k % sequencer.total_beats
          /\ reached[k] = 0 => k >= sequencer.total_beats
    /\ EveryWindowVisitsAll

\* C25, amended: where total_beats >= 1 the indices reached are
\* 1, 2, ..., total_beats - 1, 0, 1, ..., index 0 is first reached on the
\* total_beats-th advance and any total_beats consecutive advances visit
\* every slot index exactly once; where total_beats = 0 every advance
\* reaches index 0.
C25_IndicesInRotationWhereBeats ==
    IF sequencer.total_beats >= 1
    THEN /\ \A k \in DOMAIN reached :
               /\ reached[k] = k % sequencer.total_beats
               /\ reached[k] = 0 => k >= sequencer.total_beats
         /\ EveryWindowVisitsAll
    ELSE \A k \in DOMAIN reached : reached[k] = 0

\* four advances of a sequencer of two beats: twice around
C25_Witness ==
    /\ sequencer.total_beats = 2
    /\ reached = <<1, 0, 1, 0>>

\* C26: update only reads slots that exist: no call fails on a slot out of
\* range, the index an advance reads is < BEATS for every track, and every
\* one of the BEATS slots of a track is reachable (BEATS <= total_beats).
C26_SlotsExist ==
    /\ [](upc # "panicked")
    /\ [][IsAdvance =>
            \A kind \in DOMAIN sequencer.channels :
                HasSlot(kind, sequencer'.current_beat)]_vars
    /\ [](\A kind \in DOMAIN sequencer.channels :
            Len(sequencer.channels[kind]) <= sequencer.total_beats)

====
